---- MODULE Spec2Model ----
(***************************************************************************)
(* State-machine model of the command-resolution layer of the personal     *)
(* assistant: the two CSV record stores (contacts.csv, tasks.csv) and the  *)
(* Add / Edit / Delete / View resolvers that read and write them.          *)
(*                                                                         *)
(* A Python str is a sequence of one-character strings, so that lower(),   *)
(* strip() and replace(" ", "") are computed character by character.  A    *)
(* CSV file is the sequence of rows csv.reader yields from it; a row is a  *)
(* sequence of strs.  A dict is a function whose domain is its key set.    *)
(***************************************************************************)
EXTENDS Integers, Sequences, FiniteSets, TLC

VARIABLES contacts_csv, tasks_csv, pc, request, result, pre, scenario,
          raw_command, classification, structured, printed, fault

vars == <<contacts_csv, tasks_csv, pc, request, result, pre, scenario,
          raw_command, classification, structured, printed, fault>>

(***************************************************************************)
(* Python str                                                              *)
(***************************************************************************)

\* The characters of the model's strs, by code point: space (32), the single
\* quote (39), ',' (44), '-' (45), '.' (46), the digits (48..57), '@' (64),
\* 'A'..'Z' (65..90), 'a'..'z' (97..122).
Digits == <<"0", "1", "2", "3", "4", "5", "6", "7", "8", "9">>

UpperCase ==
  << "A", "B", "C", "D", "E", "F", "G", "H", "I", "J", "K", "L", "M",
     "N", "O", "P", "Q", "R", "S", "T", "U", "V", "W", "X", "Y", "Z" >>

LowerCase ==
  << "a", "b", "c", "d", "e", "f", "g", "h", "i", "j", "k", "l", "m",
     "n", "o", "p", "q", "r", "s", "t", "u", "v", "w", "x", "y", "z" >>

Chars ==
  {" ", "'", ",", "-", ".", "@"} \cup {Digits[i] : i \in DOMAIN Digits}
    \cup {UpperCase[i] : i \in DOMAIN UpperCase}
    \cup {LowerCase[i] : i \in DOMAIN LowerCase}

\* ord(c): the code point of a character.
OrdMap ==
  [c \in Chars |->
     IF c = " " THEN 32
     ELSE IF c = "'" THEN 39
     ELSE IF c = "," THEN 44
     ELSE IF c = "-" THEN 45
     ELSE IF c = "." THEN 46
     ELSE IF c = "@" THEN 64
     ELSE IF \E i \in DOMAIN Digits : Digits[i] = c
          THEN 47 + (CHOOSE i \in DOMAIN Digits : Digits[i] = c)
     ELSE IF \E i \in DOMAIN UpperCase : UpperCase[i] = c
          THEN 64 + (CHOOSE i \in DOMAIN UpperCase : UpperCase[i] = c)
     ELSE 96 + (CHOOSE i \in DOMAIN LowerCase : LowerCase[i] = c)]

ord(c) == OrdMap[c]

\* str.lower() on one character: an upper-case letter becomes the lower-case
\* letter 32 code points above it; every other character is kept.
LowerMap ==
  [c \in Chars |->
     IF OrdMap[c] >= 65 /\ OrdMap[c] <= 90 THEN LowerCase[OrdMap[c] - 64] ELSE c]

\* str.lower()
lower(s) == [i \in DOMAIN s |-> LowerMap[s[i]]]

\* Whitespace removed by str.strip() (within the printable characters).
Whitespace == {" "}

RECURSIVE lstrip(_)
lstrip(s) == IF s # <<>> /\ Head(s) \in Whitespace THEN lstrip(Tail(s)) ELSE s

RECURSIVE rstrip(_)
rstrip(s) == IF s # <<>> /\ s[Len(s)] \in Whitespace
             THEN rstrip(SubSeq(s, 1, Len(s) - 1)) ELSE s

\* str.strip()
strip(s) == rstrip(lstrip(s))

\* str.replace(" ", "")
remove_spaces(s) == SelectSeq(s, LAMBDA c : c # " ")

\* s < t in Python's str ordering (lexicographic by code point).
RECURSIVE str_lt(_, _)
str_lt(s, t) ==
  IF t = <<>> THEN FALSE
  ELSE IF s = <<>> THEN TRUE
  ELSE IF Head(s) = Head(t) THEN str_lt(Tail(s), Tail(t))
  ELSE ord(Head(s)) < ord(Head(t))

\* dict.get(key, default)
get(d, key, default) == IF key \in DOMAIN d THEN d[key] ELSE default

\* The empty dict {}.
EmptyDict == <<>>

(***************************************************************************)
(* utils/csv_utils.py                                                      *)
(***************************************************************************)

s_Name == <<"N", "a", "m", "e">>
s_Phone == <<"P", "h", "o", "n", "e">>
s_Email == <<"E", "m", "a", "i", "l">>
s_Address == <<"A", "d", "d", "r", "e", "s", "s">>
s_Title == <<"T", "i", "t", "l", "e">>
s_Description == <<"D", "e", "s", "c", "r", "i", "p", "t", "i", "o", "n">>
s_DueDate == <<"D", "u", "e", "D", "a", "t", "e">>
s_Status == <<"S", "t", "a", "t", "u", "s">>
s_AssignedTo == <<"A", "s", "s", "i", "g", "n", "e", "d", "T", "o">>

CONTACT_HEADERS == <<s_Name, s_Phone, s_Email, s_Address>>

TASK_HEADERS == <<s_Title, s_Description, s_DueDate, s_Status, s_AssignedTo>>

\* header_index = {h.lower().replace(" ", ""): i for i, h in enumerate(headers)}
\* (a later header with the same normalised name wins, as in a dict comprehension).
build_header_index(headers) ==
  LET norm == [i \in DOMAIN headers |-> remove_spaces(lower(headers[i]))]
  IN [k \in {norm[i] : i \in DOMAIN headers} |->
        CHOOSE i \in DOMAIN headers :
          norm[i] = k /\ \A j \in DOMAIN headers : norm[j] = k => j <= i]

CONTACT_INDEX == build_header_index(CONTACT_HEADERS)

TASK_INDEX == build_header_index(TASK_HEADERS)

\* The same dict; for the two schemas it is computed once and looked up.
header_index(headers) ==
  IF headers = CONTACT_HEADERS THEN CONTACT_INDEX
  ELSE IF headers = TASK_HEADERS THEN TASK_INDEX
  ELSE build_header_index(headers)

\* One criteria entry against a row (the body of the loop of row_matches); an
\* IndexError on a short row is caught and counts as no match.
field_matches(row, index, field, target_value) ==
  LET norm_field == remove_spaces(lower(field))
  IN /\ norm_field \in DOMAIN index
     /\ index[norm_field] \in DOMAIN row
     /\ lower(strip(row[index[norm_field]])) = lower(strip(target_value))

row_matches_NoStrip(row, headers, criteria) ==
  \A field \in DOMAIN criteria :
    LET norm_field == remove_spaces(lower(field))
        index == header_index(headers)
    IN /\ norm_field \in DOMAIN index
       /\ index[norm_field] \in DOMAIN row
       /\ lower(row[index[norm_field]]) = lower(criteria[field])

\* row_matches(row, headers, criteria): every criteria entry passes.
row_matches(row, headers, criteria) ==
  \A field \in DOMAIN criteria :
    field_matches(row, header_index(headers), field, criteria[field])

(***************************************************************************)
(* The record stores: contacts.csv and tasks.csv                           *)
(***************************************************************************)

\* A file that does not exist.
NoFile == [exists |-> FALSE, rows |-> <<>>]

\* A file holding the given rows.
File(rows) == [exists |-> TRUE, rows |-> rows]

\* if os.path.exists(path): list(csv.reader(f)), else [].
load(file) == IF file.exists THEN file.rows ELSE <<>>

append_row_Front(file, row) == File(<<row>> \o load(file))

\* open(path, "a") and writerow(row): creates the file when it is absent.
append_row(file, row) == File(Append(load(file), row))

\* A resolver's return value.  count is the number an f-string message carries,
\* data the rows a view returns (each row zipped with the headers).
Result(status, message) ==
  [status |-> status, message |-> message, count |-> 0, data |-> <<>>]

ResultCount(status, message, n) ==
  [status |-> status, message |-> message, count |-> n, data |-> <<>>]

\* What a resolver hands back to the model: the files after the call and the result.
Outcome(contacts, tasks, res) == [contacts |-> contacts, tasks |-> tasks, result |-> res]

(***************************************************************************)
(* agents/add_agent.py                                                     *)
(***************************************************************************)

\* Python truthiness of a parameter: present and not the empty str.
truthy(d, key) == key \in DOMAIN d /\ d[key] # <<>>

\* The index of the first existing contact that stops the add (its phone or
\* its email is taken), or 0 when there is none.
first_conflict(existing, phone, email) ==
  LET hits == {i \in DOMAIN existing :
                 \/ phone = existing[i][2]
                 \/ lower(email) = lower(existing[i][3])}
  IN IF hits = {} THEN 0 ELSE CHOOSE i \in hits : \A j \in hits : i <= j

process_contact_add_NoLower(contacts, tasks, params) ==
  LET name == strip(get(params, s_Name, <<>>))
      phone == strip(get(params, s_Phone, <<>>))
      email == strip(get(params, s_Email, <<>>))
      address == IF truthy(params, s_Address) THEN strip(params[s_Address]) ELSE <<>>
      existing == SelectSeq(load(contacts), LAMBDA row : Len(row) >= 3)
  IN IF name = <<>> \/ phone = <<>> \/ email = <<>>
     THEN Outcome(contacts, tasks, Result("failed", "Name, Phone and Email are required"))
     ELSE IF \E i \in DOMAIN existing : phone = existing[i][2]
     THEN Outcome(contacts, tasks, Result("failed", "Phone number exists"))
     ELSE IF \E i \in DOMAIN existing : email = existing[i][3]
     THEN Outcome(contacts, tasks, Result("failed", "Email exists"))
     ELSE Outcome(append_row(contacts, <<name, phone, email, address>>), tasks,
                  Result("success", "Contact added"))

\* process_contact_add(request): the contacts and tasks files after the call and
\* the returned result.
process_contact_add(contacts, tasks, params) ==
  LET name == strip(get(params, s_Name, <<>>))
      phone == strip(get(params, s_Phone, <<>>))
      email == strip(get(params, s_Email, <<>>))
      address == IF truthy(params, s_Address) THEN strip(params[s_Address]) ELSE <<>>
      existing == SelectSeq(load(contacts), LAMBDA row : Len(row) >= 3)
      hit == first_conflict(existing, phone, email)
  IN IF name = <<>> \/ phone = <<>> \/ email = <<>>
     THEN Outcome(contacts, tasks, Result("failed", "Name, Phone and Email are required"))
     ELSE IF hit # 0 /\ phone = existing[hit][2]
     THEN Outcome(contacts, tasks, Result("failed", "Phone number exists"))
     ELSE IF hit # 0
     THEN Outcome(contacts, tasks, Result("failed", "Email exists"))
     ELSE Outcome(append_row(contacts, <<name, phone, email, address>>), tasks,
                  Result("success", "Contact added"))

\* sub in s (substring containment).
contains(s, sub) ==
  \E i \in 0..(Len(s) - Len(sub)) : SubSeq(s, i + 1, i + Len(sub)) = sub

s_tomorrow == <<"t", "o", "m", "o", "r", "r", "o", "w">>
s_next_week == <<"n", "e", "x", "t", " ", "w", "e", "e", "k">>
s_next_month == <<"n", "e", "x", "t", " ", "m", "o", "n", "t", "h">>

\* The YYYY-MM-DD dates parsedatetime resolves the three phrases to, for a clock
\* that reads 2026-01-01.
d_tomorrow == <<"2", "0", "2", "6", "-", "0", "1", "-", "0", "2">>
d_next_week == <<"2", "0", "2", "6", "-", "0", "1", "-", "0", "8">>
d_next_month == <<"2", "0", "2", "6", "-", "0", "2", "-", "0", "1">>

\* cal.parseDT(date_str, sourceTime=datetime.now()): the formatted date and the
\* parse status; a str that is none of the phrases does not parse.
parseDT(date_str) ==
  IF date_str = s_tomorrow THEN [date |-> d_tomorrow, parse_status |-> TRUE]
  ELSE IF date_str = s_next_week THEN [date |-> d_next_week, parse_status |-> TRUE]
  ELSE IF date_str = s_next_month THEN [date |-> d_next_month, parse_status |-> TRUE]
  ELSE [date |-> <<>>, parse_status |-> FALSE]

\* parse_relative_date(date_str) of add_agent.py.
parse_relative_date(date_str) ==
  LET lower_str == lower(date_str)
      filtered == IF contains(lower_str, s_tomorrow) THEN s_tomorrow
                  ELSE IF contains(lower_str, s_next_week) THEN s_next_week
                  ELSE IF contains(lower_str, s_next_month) THEN s_next_month
                  ELSE date_str
      parsed == parseDT(filtered)
  IN IF parsed.parse_status THEN parsed.date ELSE filtered

s_on_going == <<"o", "n", " ", "g", "o", "i", "n", "g">>
s_None == <<"N", "o", "n", "e">>
s_none == <<"n", "o", "n", "e">>

\* The contact look-up of process_task_add: some non-empty row of contacts.csv
\* whose first field, stripped and lower-cased, is assigned_to lower-cased.
contact_found(contacts, assigned_to) ==
  /\ contacts.exists
  /\ \E i \in DOMAIN contacts.rows :
       /\ contacts.rows[i] # <<>>
       /\ lower(strip(contacts.rows[i][1])) = lower(assigned_to)

process_task_add_WriteFirst(contacts, tasks, params) ==
  LET title == strip(get(params, s_Title, <<>>))
      description == IF truthy(params, s_Description)
                     THEN strip(params[s_Description]) ELSE <<>>
      due_date_input == IF truthy(params, s_DueDate)
                        THEN strip(params[s_DueDate]) ELSE <<>>
      status == strip(get(params, s_Status, s_on_going))
      assigned_to == strip(get(params, s_AssignedTo, s_None))
      due_date == IF due_date_input # <<>> THEN parse_relative_date(due_date_input) ELSE <<>>
      existing_tasks == SelectSeq(load(tasks), LAMBDA row : Len(row) >= 1)
      written == append_row(tasks, <<title, description, due_date, status, assigned_to>>)
  IN IF title = <<>>
     THEN Outcome(contacts, tasks, Result("failed", "Task Title is required"))
     ELSE IF \E i \in DOMAIN existing_tasks : lower(title) = lower(existing_tasks[i][1])
     THEN Outcome(contacts, tasks, Result("failed", "Task title exists"))
     ELSE IF /\ lower(assigned_to) # s_none
             /\ assigned_to # <<>>
             /\ ~contact_found(contacts, assigned_to)
     THEN Outcome(contacts, written, Result("failed", "Assigned contact not found"))
     ELSE Outcome(contacts, written, Result("success", "Task added"))

\* process_task_add(request)
process_task_add(contacts, tasks, params) ==
  LET title == strip(get(params, s_Title, <<>>))
      description == IF truthy(params, s_Description)
                     THEN strip(params[s_Description]) ELSE <<>>
      due_date_input == IF truthy(params, s_DueDate)
                        THEN strip(params[s_DueDate]) ELSE <<>>
      status == strip(get(params, s_Status, s_on_going))
      assigned_to == strip(get(params, s_AssignedTo, s_None))
      due_date == IF due_date_input # <<>> THEN parse_relative_date(due_date_input) ELSE <<>>
      existing_tasks == SelectSeq(load(tasks), LAMBDA row : Len(row) >= 1)
  IN IF title = <<>>
     THEN Outcome(contacts, tasks, Result("failed", "Task Title is required"))
     ELSE IF \E i \in DOMAIN existing_tasks : lower(title) = lower(existing_tasks[i][1])
     THEN Outcome(contacts, tasks, Result("failed", "Task title exists"))
     ELSE IF /\ lower(assigned_to) # s_none
             /\ assigned_to # <<>>
             /\ ~contact_found(contacts, assigned_to)
     THEN Outcome(contacts, tasks, Result("failed", "Assigned contact not found"))
     ELSE Outcome(contacts,
                  append_row(tasks, <<title, description, due_date, status, assigned_to>>),
                  Result("success", "Task added"))

(***************************************************************************)
(* agents/edit_agent.py                                                    *)
(***************************************************************************)

\* zip(headers, row): as many pairs as the shorter of the two.
zip_len(headers, row) == IF Len(headers) <= Len(row) THEN Len(headers) ELSE Len(row)

update_csv_row_NoAddress(row, headers, updates) ==
  [i \in 1..(zip_len(headers, row) - 1) |-> strip(get(updates, headers[i], row[i]))]

\* update_csv_row(row, headers, updates)
update_csv_row(row, headers, updates) ==
  [i \in 1..zip_len(headers, row) |-> strip(get(updates, headers[i], row[i]))]

\* The rows of a store after an edit, and how many of them were updated.
count_matches(rows, headers, criteria) ==
  Cardinality({i \in DOMAIN rows : row_matches(rows[i], headers, criteria)})

\* process_contact_edit(request)
process_contact_edit(contacts, tasks, params) ==
  LET criteria == get(params, "criteria", EmptyDict)
      updates == get(params, "updates", EmptyDict)
      rows == load(contacts)
      new_contacts == [i \in DOMAIN rows |->
                         IF row_matches(rows[i], CONTACT_HEADERS, criteria)
                         THEN update_csv_row(rows[i], CONTACT_HEADERS, updates)
                         ELSE rows[i]]
      updated_count == count_matches(rows, CONTACT_HEADERS, criteria)
  IN IF criteria = EmptyDict \/ updates = EmptyDict
     THEN Outcome(contacts, tasks, Result("failed", "Missing criteria or updates"))
     ELSE IF updated_count = 0
     THEN Outcome(contacts, tasks, Result("failed", "No matching contacts found"))
     ELSE Outcome(File(new_contacts), tasks,
                  ResultCount("success", "Updated contacts", updated_count))

\* The update keys process_task_edit looks up, column by column.
s_Due_Date == <<"D", "u", "e", " ", "D", "a", "t", "e">>
s_Assigned_To == <<"A", "s", "s", "i", "g", "n", "e", "d", " ", "T", "o">>

TASK_UPDATE_KEYS == <<s_Title, s_Description, s_Due_Date, s_Status, s_Assigned_To>>

\* The number of columns process_task_edit keeps of a row.
TASK_COLUMNS == 5

\* cleaned_row: the first five columns, stripped, padded with '' to five.
cleaned_row(row) ==
  [i \in 1..TASK_COLUMNS |-> IF i <= Len(row) THEN strip(row[i]) ELSE <<>>]

\* process_task_edit(request)
process_task_edit(contacts, tasks, params) ==
  LET criteria == get(params, "criteria", EmptyDict)
      updates == get(params, "updates", EmptyDict)
      \* next(reader) skips the first row of the file; the rest are cleaned.
      body == IF tasks.rows = <<>> THEN <<>> ELSE Tail(tasks.rows)
      rows == [i \in DOMAIN body |-> cleaned_row(body[i])]
      new_tasks == [i \in DOMAIN rows |->
                      IF row_matches(rows[i], TASK_HEADERS, criteria)
                      THEN [c \in 1..TASK_COLUMNS |->
                              get(updates, TASK_UPDATE_KEYS[c], rows[i][c])]
                      ELSE rows[i]]
      updated_count == count_matches(rows, TASK_HEADERS, criteria)
  IN IF criteria = EmptyDict \/ updates = EmptyDict
     THEN Outcome(contacts, tasks, Result("failed", "Missing criteria or updates"))
     ELSE IF ~tasks.exists
     THEN Outcome(contacts, tasks, Result("error", "No such file or directory"))
     ELSE Outcome(contacts, File(<<TASK_HEADERS>> \o new_tasks),
                  ResultCount("success", "Updated tasks", updated_count))

(***************************************************************************)
(* agents/delete_agent.py                                                  *)
(***************************************************************************)

delete_rows_KeepMatching(rows, headers, criteria) ==
  SelectSeq(rows, LAMBDA row : row_matches(row, headers, criteria))

\* new_rows = [row for row in rows if not row_matches(row, headers, criteria)]
delete_rows(rows, headers, criteria) ==
  SelectSeq(rows, LAMBDA row : ~row_matches(row, headers, criteria))

process_contact_delete_NoGuard(contacts, tasks, params) ==
  LET criteria == get(params, "criteria", EmptyDict)
      rows == load(contacts)
      new_contacts == delete_rows(rows, CONTACT_HEADERS, criteria)
  IN IF Len(new_contacts) = Len(rows)
     THEN Outcome(contacts, tasks, Result("failed", "No matching contacts found."))
     ELSE Outcome(File(new_contacts), tasks,
                  ResultCount("success", "Deleted contact(s).", Len(rows) - Len(new_contacts)))

\* process_contact_delete(request)
process_contact_delete(contacts, tasks, params) ==
  LET criteria == get(params, "criteria", EmptyDict)
      rows == load(contacts)
      new_contacts == delete_rows(rows, CONTACT_HEADERS, criteria)
  IN IF criteria = EmptyDict
     THEN Outcome(contacts, tasks, Result("failed", "No deletion criteria provided."))
     ELSE IF Len(new_contacts) = Len(rows)
     THEN Outcome(contacts, tasks, Result("failed", "No matching contacts found."))
     ELSE Outcome(File(new_contacts), tasks,
                  ResultCount("success", "Deleted contact(s).", Len(rows) - Len(new_contacts)))

\* process_task_delete(request)
process_task_delete(contacts, tasks, params) ==
  LET criteria == get(params, "criteria", EmptyDict)
      rows == load(tasks)
      new_tasks == delete_rows(rows, TASK_HEADERS, criteria)
  IN IF criteria = EmptyDict
     THEN Outcome(contacts, tasks, Result("failed", "No deletion criteria provided."))
     ELSE IF Len(new_tasks) = Len(rows)
     THEN Outcome(contacts, tasks, Result("failed", "No matching tasks found."))
     ELSE Outcome(contacts, File(new_tasks),
                  ResultCount("success", "Deleted task(s).", Len(rows) - Len(new_tasks)))

(***************************************************************************)
(* agents/view_agent.py                                                    *)
(***************************************************************************)

s_asc == <<"a", "s", "c">>
s_desc == <<"d", "e", "s", "c">>

RECURSIVE insert_sorted_Unstable(_, _, _, _)
insert_sorted_Unstable(sorted, row, index, reverse_order) ==
  IF sorted = <<>> THEN <<row>>
  ELSE LET last == sorted[Len(sorted)]
           behind == IF reverse_order
                     THEN str_lt(lower(row[index]), lower(last[index]))
                     ELSE str_lt(lower(last[index]), lower(row[index]))
       IN IF behind
          THEN Append(sorted, row)
          ELSE Append(insert_sorted_Unstable(SubSeq(sorted, 1, Len(sorted) - 1),
                                             row, index, reverse_order), last)

\* Insert a row into rows already sorted by key, after every row it does not
\* come strictly before: list.sort is stable, also with reverse=True.
RECURSIVE insert_sorted(_, _, _, _)
insert_sorted(sorted, row, index, reverse_order) ==
  IF sorted = <<>> THEN <<row>>
  ELSE LET last == sorted[Len(sorted)]
           before == IF reverse_order
                     THEN str_lt(lower(last[index]), lower(row[index]))
                     ELSE str_lt(lower(row[index]), lower(last[index]))
       IN IF before
          THEN Append(insert_sorted(SubSeq(sorted, 1, Len(sorted) - 1),
                                    row, index, reverse_order), last)
          ELSE Append(sorted, row)

\* data.sort(key=lambda x: x[index].lower(), reverse=reverse_order)
RECURSIVE sort_rows(_, _, _)
sort_rows(data, index, reverse_order) ==
  IF data = <<>> THEN <<>>
  ELSE insert_sorted(sort_rows(SubSeq(data, 1, Len(data) - 1), index, reverse_order),
                     data[Len(data)], index, reverse_order)

\* _apply_sorting(data, headers, params): the sorted rows, and whether the key
\* of some row raised IndexError.
apply_sorting(data, headers, params) ==
  LET sort_field == lower(remove_spaces(params.sort_by))
      order == lower(get(params, "order", s_asc))
      index == header_index(headers)
  IN IF sort_field \notin DOMAIN index
     THEN [raised |-> FALSE, data |-> data]
     ELSE IF \E i \in DOMAIN data : index[sort_field] \notin DOMAIN data[i]
     THEN [raised |-> TRUE, data |-> data]
     ELSE [raised |-> FALSE,
           data |-> sort_rows(data, index[sort_field], order = s_desc)]

\* dict(zip(headers, row))
zip_dict(headers, row) ==
  LET n == zip_len(headers, row)
  IN [h \in {headers[i] : i \in 1..n} |->
        row[CHOOSE i \in 1..n : headers[i] = h /\ \A j \in 1..n : headers[j] = h => j <= i]]

\* _format_result(data, headers)
format_result(data, headers) ==
  IF data = <<>> THEN Result("failed", "No matching records found")
  ELSE [status |-> "success", message |-> "", count |-> 0,
        data |-> [i \in DOMAIN data |-> zip_dict(headers, data[i])]]

\* The body shared by process_contact_view and process_task_view.
view_rows(rows, headers, params) ==
  LET criteria == get(params, "criteria", EmptyDict)
      matching == SelectSeq(rows, LAMBDA row :
                    criteria = EmptyDict \/ row_matches(row, headers, criteria))
      sorted == IF "sort_by" \in DOMAIN params /\ params.sort_by # <<>>
                THEN apply_sorting(matching, headers, params)
                ELSE [raised |-> FALSE, data |-> matching]
  IN IF sorted.raised THEN Result("error", "list index out of range")
     ELSE format_result(sorted.data, headers)

process_contact_view_Rewrite(contacts, tasks, params) ==
  Outcome(File(SelectSeq(load(contacts), LAMBDA row :
                 row_matches(row, CONTACT_HEADERS, get(params, "criteria", EmptyDict)))),
          tasks, view_rows(load(contacts), CONTACT_HEADERS, params))

\* process_contact_view(request)
process_contact_view(contacts, tasks, params) ==
  Outcome(contacts, tasks, view_rows(load(contacts), CONTACT_HEADERS, params))

\* process_task_view(request)
process_task_view(contacts, tasks, params) ==
  Outcome(contacts, tasks, view_rows(load(tasks), TASK_HEADERS, params))

(***************************************************************************)
(* Storage faults                                                          *)
(***************************************************************************)

\* What the storage does during one call: nothing unusual ("none"), every
\* open(path, "r") of an existing file raises OSError ("read"), or every
\* open(path, "a") and open(path, "w") raises it before the file is touched
\* ("write").
Faults == {"none", "read", "write"}

\* An exception that leaves a function instead of a return value: the caller
\* gets no dict, hence no status.
Raised(exception) == [raised |-> exception]

\* The resolver the entry points dispatch to for an operation and a target.
resolver(operation, target, contacts, tasks, params) ==
  CASE operation = "0" /\ target = "contacts" -> process_contact_add(contacts, tasks, params)
    [] operation = "0" /\ target = "tasks" -> process_task_add(contacts, tasks, params)
    [] operation = "1" /\ target = "contacts" -> process_contact_edit(contacts, tasks, params)
    [] operation = "1" /\ target = "tasks" -> process_task_edit(contacts, tasks, params)
    [] operation = "2" /\ target = "contacts" -> process_contact_delete(contacts, tasks, params)
    [] operation = "2" /\ target = "tasks" -> process_task_delete(contacts, tasks, params)
    [] operation = "3" /\ target = "contacts" -> process_contact_view(contacts, tasks, params)
    [] operation = "3" /\ target = "tasks" -> process_task_view(contacts, tasks, params)

\* What a storage fault f makes of a resolver call whose outcome without the
\* fault is out.  Every resolver checks its required inputs before it opens a
\* file.  The Edit, Delete and View resolvers do all their file work inside
\* try/except Exception and return the 'error' result.  The two Add resolvers
\* read the existing rows outside any try (process_task_add may read both
\* files) and only append inside one.
fault_effect(f, operation, target, contacts, tasks, params, out) ==
  LET file == IF target = "contacts" THEN contacts ELSE tasks
      rejected == out.result.message \in
                    {"Name, Phone and Email are required", "Task Title is required",
                     "Missing criteria or updates", "No deletion criteria provided."}
      assigned_to == strip(get(params, s_AssignedTo, s_None))
      reads == \/ file.exists
               \/ /\ operation = "0"
                  /\ target = "tasks"
                  /\ lower(assigned_to) # s_none
                  /\ assigned_to # <<>>
                  /\ contacts.exists
      writes == operation # "3" /\ out.result.status = "success"
  IN IF f = "none" \/ rejected THEN out
     ELSE IF f = "read" /\ reads
     THEN IF operation = "0"
          THEN Outcome(contacts, tasks, Raised("OSError"))
          ELSE Outcome(contacts, tasks, Result("error", "Input/output error"))
     ELSE IF f = "write" /\ writes
     THEN Outcome(contacts, tasks, Result("error", "Input/output error"))
     ELSE out

\* The call of a resolver under a storage fault f.
resolver_under(f, operation, target, contacts, tasks, params) ==
  fault_effect(f, operation, target, contacts, tasks, params,
               resolver(operation, target, contacts, tasks, params))

(***************************************************************************)
(* The requests the structured-request collaborator hands to the resolvers *)
(***************************************************************************)

s_Ann == <<"A", "n", "n">>
s_ann == <<"a", "n", "n">>
s_Bob == <<"B", "o", "b">>
s_111 == <<"1", "1", "1">>
s_222 == <<"2", "2", "2">>
s_a_x_com == <<"a", "@", "x", ".", "c", "o", "m">>
s_A_X_COM == <<"A", "@", "X", ".", "C", "O", "M">>
s_b_x_com == <<"b", "@", "x", ".", "c", "o", "m">>
s_Pay == <<"P", "a", "y">>
s_pay == <<"p", "a", "y">>
s_Fix == <<"F", "i", "x">>
s_done == <<"d", "o", "n", "e">>
s_Nick == <<"N", "i", "c", "k">>
s_e_mail == <<"e", " ", "m", "a", "i", "l">>
s_name == <<"n", "a", "m", "e">>

\* The longest file the model lets an Add grow.
MaxRows == 3

ContactAddParams ==
  {(s_Name :> s_Ann) @@ (s_Phone :> s_111) @@ (s_Email :> s_a_x_com),
   (s_Name :> s_Bob) @@ (s_Phone :> s_111) @@ (s_Email :> s_b_x_com),
   (s_Name :> s_Bob) @@ (s_Phone :> s_222) @@ (s_Email :> s_A_X_COM),
   (s_Name :> s_Bob) @@ (s_Phone :> s_222) @@ (s_Email :> s_b_x_com),
   (s_Phone :> s_222) @@ (s_Email :> s_a_x_com)}

ContactCriteria ==
  {EmptyDict, s_Name :> s_Ann, s_Name :> s_Bob, s_Nick :> s_Ann}

ContactUpdates ==
  {EmptyDict, s_Email :> s_b_x_com, s_e_mail :> s_a_x_com}

ContactViewParams ==
  {<<>>, [criteria |-> s_Name :> s_Bob], [sort_by |-> s_name, order |-> s_desc],
   [sort_by |-> s_e_mail], [criteria |-> s_Name :> s_Bob, sort_by |-> s_Nick]}

TaskAddParams ==
  {s_Title :> s_Pay,
   (s_Title :> s_pay) @@ (s_AssignedTo :> s_none),
   (s_Title :> s_Fix) @@ (s_AssignedTo :> s_ann),
   (s_Title :> s_Fix) @@ (s_AssignedTo :> s_Bob),
   (s_Title :> s_Fix) @@ (s_Status :> s_done) @@ (s_DueDate :> s_tomorrow),
   (s_Title :> s_Pay) @@ (s_AssignedTo :> s_name),
   EmptyDict}

TaskCriteria ==
  {EmptyDict, s_Title :> s_pay, s_Status :> s_on_going, s_Assigned_To :> s_Ann}

TaskUpdates ==
  {EmptyDict, s_Status :> s_done, s_Title :> s_Fix, s_AssignedTo :> s_Bob}

TaskViewParams ==
  {<<>>, [criteria |-> s_Status :> s_on_going], [sort_by |-> s_Title, order |-> s_desc],
   [sort_by |-> s_Assigned_To], [criteria |-> s_Title :> s_pay, sort_by |-> s_Nick]}

(***************************************************************************)
(* The state machine                                                       *)
(***************************************************************************)

NoRequest == [operation |-> "", target |-> "", parameters |-> <<>>]

NoResult == Result("", "")

NoPre == [contacts |-> NoFile, tasks |-> NoFile]

\* No command has been read and classified.
NoClassification == [operation |-> "", target |-> <<>>]

\* No entry point has asked its assistant for a structured request.
NoStructured == [operation |-> "", target |-> <<>>, parameters |-> <<>>]

NoCommand ==
  /\ raw_command = <<>>
  /\ classification = NoClassification
  /\ structured = NoStructured
  /\ printed = ""
  /\ fault = "none"

\* The files as the entry points leave them before the first command:
\* add_agent.py creates each missing file empty, main.py and app.py write a
\* header row into each missing file (initialize_files), the other agents run
\* on whatever is there, possibly nothing.
Init ==
  /\ \/ contacts_csv = File(<<>>) /\ tasks_csv = File(<<>>)
     \/ contacts_csv = File(<<CONTACT_HEADERS>>) /\ tasks_csv = File(<<TASK_HEADERS>>)
     \/ contacts_csv = NoFile /\ tasks_csv = NoFile
  /\ scenario = 0
  /\ pc = "prompt"
  /\ request = NoRequest
  /\ result = NoResult
  /\ pre = NoPre
  /\ NoCommand

\* The records of a store: its rows but for the header row initialize_files writes.
records(file, headers) == SelectSeq(load(file), LAMBDA row : row # headers)

\* The end-to-end scenario of the specification, as four calls in a row:
\* add Ann, add Bob with Ann's phone, delete the contacts named Ann, view all.
ScenarioAnn == (s_Name :> s_Ann) @@ (s_Phone :> s_111) @@ (s_Email :> s_a_x_com)

ScenarioBob == (s_Name :> s_Bob) @@ (s_Phone :> s_111) @@ (s_Email :> s_b_x_com)

\* How far the calls made so far have followed the scenario: k when the last k
\* calls were its first k steps, the first of them on a contacts store without
\* records.
scenario_step(k, operation, target, parameters) ==
  IF target # "contacts" THEN 0
  ELSE IF /\ operation = "0"
             /\ parameters = ScenarioAnn
             /\ records(contacts_csv, CONTACT_HEADERS) = <<>> THEN 1
  ELSE IF k = 1 /\ operation = "0" /\ parameters = ScenarioBob THEN 2
  ELSE IF /\ k = 2
             /\ operation = "2"
             /\ get(parameters, "criteria", EmptyDict) = (s_Name :> s_Ann) THEN 3
  ELSE IF k = 3 /\ operation = "3" /\ DOMAIN parameters = {} THEN 4
  ELSE 0

\* One call of a resolver from the command loop: the request it got, the files
\* before it, the files after it and the result it returned.
Call(operation, target, parameters, out) ==
  /\ pc = "prompt"
  /\ Len(out.contacts.rows) <= MaxRows
  /\ Len(out.tasks.rows) <= MaxRows
  /\ pc' = "returned"
  /\ request' = [operation |-> operation, target |-> target, parameters |-> parameters]
  /\ pre' = [contacts |-> contacts_csv, tasks |-> tasks_csv]
  /\ contacts_csv' = out.contacts
  /\ tasks_csv' = out.tasks
  /\ result' = out.result
  /\ scenario' = scenario_step(scenario, operation, target, parameters)
  /\ UNCHANGED <<raw_command, classification, structured, printed, fault>>

ContactAdd ==
  \E p \in ContactAddParams :
    Call("0", "contacts", p, process_contact_add(contacts_csv, tasks_csv, p))

TaskAdd ==
  \E p \in TaskAddParams :
    Call("0", "tasks", p, process_task_add(contacts_csv, tasks_csv, p))

ContactEdit ==
  \E c \in ContactCriteria, u \in ContactUpdates :
    LET p == [criteria |-> c, updates |-> u]
    IN Call("1", "contacts", p, process_contact_edit(contacts_csv, tasks_csv, p))

TaskEdit ==
  \E c \in TaskCriteria, u \in TaskUpdates :
    LET p == [criteria |-> c, updates |-> u]
    IN Call("1", "tasks", p, process_task_edit(contacts_csv, tasks_csv, p))

ContactDelete ==
  \E p \in {[criteria |-> c] : c \in ContactCriteria} \cup {EmptyDict} :
    Call("2", "contacts", p, process_contact_delete(contacts_csv, tasks_csv, p))

TaskDelete ==
  \E p \in {[criteria |-> c] : c \in TaskCriteria} \cup {EmptyDict} :
    Call("2", "tasks", p, process_task_delete(contacts_csv, tasks_csv, p))

ContactView ==
  \E p \in ContactViewParams :
    Call("3", "contacts", p, process_contact_view(contacts_csv, tasks_csv, p))

TaskView ==
  \E p \in TaskViewParams :
    Call("3", "tasks", p, process_task_view(contacts_csv, tasks_csv, p))

\* The loop prints the output and prompts for the next command.
NextCommand ==
  /\ pc = "returned"
  /\ pc' = "prompt"
  /\ request' = NoRequest
  /\ result' = NoResult
  /\ pre' = NoPre
  /\ raw_command' = <<>>
  /\ classification' = NoClassification
  /\ structured' = NoStructured
  /\ printed' = ""
  /\ fault' = "none"
  /\ UNCHANGED <<contacts_csv, tasks_csv, scenario>>

Next ==
  \/ ContactAdd
  \/ TaskAdd
  \/ ContactEdit
  \/ TaskEdit
  \/ ContactDelete
  \/ TaskDelete
  \/ ContactView
  \/ TaskView
  \/ NextCommand

Spec == Init /\ [][Next]_vars

(***************************************************************************)
(* The resolvers on a storage that may fail                                *)
(***************************************************************************)

Operations == {"0", "1", "2", "3"}

\* The requests of the calls made on a storage that may fail.
FaultParams(operation, target) ==
  CASE operation = "0" /\ target = "contacts" -> {ScenarioAnn, ScenarioBob, EmptyDict}
    [] operation = "0" /\ target = "tasks" ->
         {s_Title :> s_Pay, (s_Title :> s_Fix) @@ (s_AssignedTo :> s_ann), EmptyDict}
    [] operation = "1" /\ target = "contacts" ->
         {[criteria |-> s_Name :> s_Ann, updates |-> s_Email :> s_b_x_com],
          [criteria |-> EmptyDict, updates |-> EmptyDict]}
    [] operation = "1" /\ target = "tasks" ->
         {[criteria |-> s_Title :> s_pay, updates |-> s_Status :> s_done],
          [criteria |-> EmptyDict, updates |-> EmptyDict]}
    [] operation = "2" /\ target = "contacts" -> {[criteria |-> s_Name :> s_Ann], EmptyDict}
    [] operation = "2" /\ target = "tasks" -> {[criteria |-> s_Title :> s_pay], EmptyDict}
    [] operation = "3" /\ target = "contacts" -> {EmptyDict, [sort_by |-> s_name]}
    [] operation = "3" /\ target = "tasks" -> {EmptyDict, [criteria |-> s_Title :> s_pay]}

\* One call of a resolver while the storage behaves in the way f.
CallUnder(f, operation, target, parameters, out) ==
  /\ pc = "prompt"
  /\ Len(out.contacts.rows) <= MaxRows
  /\ Len(out.tasks.rows) <= MaxRows
  /\ pc' = "returned"
  /\ request' = [operation |-> operation, target |-> target, parameters |-> parameters]
  /\ pre' = [contacts |-> contacts_csv, tasks |-> tasks_csv]
  /\ contacts_csv' = out.contacts
  /\ tasks_csv' = out.tasks
  /\ result' = out.result
  /\ fault' = f
  /\ UNCHANGED <<scenario, raw_command, classification, structured, printed>>

FaultyCall ==
  \E operation \in Operations, target \in {"contacts", "tasks"}, f \in Faults :
    \E p \in FaultParams(operation, target) :
      CallUnder(f, operation, target, p,
                resolver_under(f, operation, target, contacts_csv, tasks_csv, p))

FaultNext == FaultyCall \/ NextCommand

SpecFault == Init /\ [][FaultNext]_vars

(***************************************************************************)
(* The command layer: main.py and the entry points of the agents           *)
(***************************************************************************)

\* s.startswith(prefix)
startswith(s, prefix) == Len(s) >= Len(prefix) /\ SubSeq(s, 1, Len(prefix)) = prefix

\* s.find(sub): the offset of the first occurrence, -1 when there is none.
find(s, sub) ==
  IF contains(s, sub)
  THEN CHOOSE i \in 0..(Len(s) - Len(sub)) :
         /\ SubSeq(s, i + 1, i + Len(sub)) = sub
         /\ \A j \in 0..(i - 1) : SubSeq(s, j + 1, j + Len(sub)) # sub
  ELSE -1

\* s.split(sep, maxsplit); maxsplit -1 for no limit.
RECURSIVE split(_, _, _)
split(s, sep, maxsplit) ==
  IF maxsplit = 0 \/ find(s, sep) = -1 THEN <<s>>
  ELSE <<SubSeq(s, 1, find(s, sep))>>
         \o split(SubSeq(s, find(s, sep) + Len(sep) + 1, Len(s)), sep, maxsplit - 1)

\* s.strip(chars)
RECURSIVE strip_chars(_, _)
strip_chars(s, chars) ==
  IF s # <<>> /\ Head(s) \in chars THEN strip_chars(Tail(s), chars)
  ELSE IF s # <<>> /\ s[Len(s)] \in chars THEN strip_chars(SubSeq(s, 1, Len(s) - 1), chars)
  ELSE s

\* s.capitalize(): the first character upper-cased, the others lower-cased.
capitalize(s) ==
  [i \in DOMAIN s |->
     IF i = 1 /\ ord(s[i]) >= 97 /\ ord(s[i]) <= 122 THEN UpperCase[ord(s[i]) - 96]
     ELSE IF i = 1 THEN s[i]
     ELSE LowerMap[s[i]]]

\* An assistant call that raised instead of returning a model: the LLM request
\* or the parsing of its output failed.
Failure == [error |-> "Exception"]

\* What an entry point hands back: the files, the result, and the request it
\* passed to a resolver (NoRequest when it called none).
Entry(out, req) ==
  [contacts |-> out.contacts, tasks |-> out.tasks, result |-> out.result, request |-> req]

\* request.target.lower() compared with "contacts" and "tasks".
target_of(target) ==
  IF lower(target) = <<"c", "o", "n", "t", "a", "c", "t", "s">> THEN "contacts"
  ELSE IF lower(target) = <<"t", "a", "s", "k", "s">> THEN "tasks"
  ELSE ""

\* process_add_command: the comma-separated fallback for contacts.
add_contact_fallback(params, raw) ==
  LET prefix == <<"a", "d", "d", " ", "c", "o", "n", "t", "a", "c", "t">>
      content == strip(SubSeq(raw, Len(prefix) + 1, Len(raw)))
      pieces == split(content, <<",">>, -1)
      parts == SelectSeq([i \in DOMAIN pieces |-> strip(pieces[i])], LAMBDA x : x # <<>>)
      named == (s_Name :> parts[1]) @@ (s_Phone :> parts[2]) @@ (s_Email :> parts[3])
  IN IF truthy(params, s_Name) /\ truthy(params, s_Phone) /\ truthy(params, s_Email)
     THEN params
     ELSE IF ~startswith(lower(raw), prefix) \/ Len(parts) < 3 THEN params
     ELSE IF Len(parts) >= 4 THEN (s_Address :> parts[4]) @@ named @@ params
     ELSE named @@ params

\* The dispatch on request.target.lower() that ends every entry point.
invoke(f, operation, target, contacts, tasks, params, invalid) ==
  IF target = ""
  THEN Entry(Outcome(contacts, tasks, Result("failed", invalid)), NoRequest)
  ELSE Entry(resolver_under(f, operation, target, contacts, tasks, params),
             [operation |-> operation, target |-> target, parameters |-> params])

\* process_add_command(raw_command): no try/except, and add_agent's own
\* RequestModel accepts the operation "0" only.
process_add_command(raw, st, f, contacts, tasks) ==
  IF st = Failure \/ st.operation # "0"
  THEN Entry(Outcome(contacts, tasks, Raised("Exception")), NoRequest)
  ELSE invoke(f, "0", target_of(st.target), contacts, tasks,
              IF target_of(st.target) = "contacts"
              THEN add_contact_fallback(st.parameters, raw)
              ELSE st.parameters,
              "Invalid target.")

\* process_edit_command(raw_command) and process_view_command(raw_command):
\* assistant, RequestModel validation and dispatch inside one try/except.
process_edit_command(raw, st, f, contacts, tasks) ==
  IF st = Failure \/ st.operation \notin Operations
  THEN Entry(Outcome(contacts, tasks, Result("error", "Edit failed")), NoRequest)
  ELSE invoke(f, "1", target_of(st.target), contacts, tasks, st.parameters, "Invalid target")

process_view_command(raw, st, f, contacts, tasks) ==
  IF st = Failure \/ st.operation \notin Operations
  THEN Entry(Outcome(contacts, tasks, Result("error", "View failed")), NoRequest)
  ELSE invoke(f, "3", target_of(st.target), contacts, tasks, st.parameters, "Invalid target")

\* fallback_parse_delete_command(raw_command, target): {"criteria": ...}, {} or
\* the IndexError of parts[1] when " where " is in the lower-cased command only.
fallback_parse_delete_command(raw, target) ==
  LET where == <<" ", "w", "h", "e", "r", "e", " ">>
      is == <<" ", "i", "s", " ">>
      quotes == {"'", "\""}
      parts == split(raw, where, 1)
      crit_parts == split(parts[2], is, 1)
      field == remove_spaces(strip(crit_parts[1]))
      crit_field ==
        IF target = "contacts" /\ lower(field) \in {<<"m", "a", "i", "l">>, <<"e", "m", "a", "i", "l">>} THEN s_Email
        ELSE IF target = "tasks" /\ lower(field) \in {<<"t", "a", "s", "k">>, s_name, <<"t", "i", "t", "t", "l", "e">>} THEN s_Title
        ELSE field
      tokens == SelectSeq(split(raw, <<" ">>, -1), LAMBDA x : x # <<>>)
  IN IF contains(lower(raw), where)
     THEN IF Len(parts) < 2 THEN Raised("IndexError")
          ELSE IF ~contains(lower(parts[2]), is) THEN EmptyDict
          ELSE IF Len(crit_parts) < 2 THEN Raised("IndexError")
          ELSE [criteria |-> capitalize(crit_field) :> strip_chars(strip(crit_parts[2]), quotes)]
     ELSE IF target \in {"contacts", "tasks"} /\ Len(tokens) = 3
     THEN [criteria |-> (IF target = "tasks" THEN s_Title ELSE s_Name)
                          :> strip_chars(strip(tokens[3]), quotes)]
     ELSE EmptyDict

\* process_delete_parameters(request_data, raw_input): the parameters the
\* request is built from.
process_delete_parameters(st, raw) ==
  LET fallback == fallback_parse_delete_command(raw, target_of(st.target))
  IN IF get(st.parameters, "criteria", EmptyDict) # EmptyDict THEN st.parameters
     ELSE IF DOMAIN fallback = {} THEN st.parameters
     ELSE fallback

\* process_delete_command(raw_command)
process_delete_command(raw, st, f, contacts, tasks) ==
  IF st = Failure
  THEN Entry(Outcome(contacts, tasks, Result("error", "Delete failed")), NoRequest)
  ELSE IF \/ "raised" \in DOMAIN process_delete_parameters(st, raw)
          \/ st.operation \notin Operations
  THEN Entry(Outcome(contacts, tasks, Result("error", "Delete failed")), NoRequest)
  ELSE invoke(f, "2", target_of(st.target), contacts, tasks,
              process_delete_parameters(st, raw), "Invalid target.")

\* What master_process_command returns, with the files as it leaves them:
\* output["result"], output["message"] and the request a resolver was given.
\* A view of tasks that returned data is answered with the table.
Output(entry, said, table) ==
  [contacts |-> entry.contacts, tasks |-> entry.tasks, result |-> entry.result,
   request |-> entry.request,
   printed |-> IF table /\ "status" \in DOMAIN entry.result /\ entry.result.status = "success"
               THEN "Here are the tasks assigned to the requested person:"
               ELSE said]

\* The body of master_process_command's try block: classification, dispatch on
\* the operation code alone, response message.
dispatch(raw, cls, st, f, contacts, tasks) ==
  IF cls = Failure
  THEN Output(Entry(Outcome(contacts, tasks, Raised("Exception")), NoRequest), "", FALSE)
  ELSE IF cls.operation = "0"
  THEN Output(process_add_command(raw, st, f, contacts, tasks),
              "Successfully added to {target}.", FALSE)
  ELSE IF cls.operation = "1"
  THEN Output(process_edit_command(raw, st, f, contacts, tasks),
              "Changes have been made to {target}.", FALSE)
  ELSE IF cls.operation = "2"
  THEN Output(process_delete_command(raw, st, f, contacts, tasks),
              "The requested {target} entry has been removed.", FALSE)
  ELSE IF cls.operation = "3"
  THEN Output(process_view_command(raw, st, f, contacts, tasks),
              "Here is the requested information about {target}.",
              lower(cls.target) = <<"t", "a", "s", "k", "s">>)
  ELSE Output(Entry(Outcome(contacts, tasks,
                            Result("failed", "I couldn't understand your request. Please try again.")),
                    NoRequest),
              "I'm not sure what you mean. Can you rephrase?", FALSE)

\* The result of master_process_command's except branch.
ApologyResult == Result("error", "Something went wrong while processing your request.")

\* except Exception: the apology in place of whatever was raised.
except_Exception(out) ==
  IF "raised" \in DOMAIN out.result
  THEN [out EXCEPT !.result = ApologyResult,
                   !.printed = "Oops! Something went wrong. Please try again later."]
  ELSE out

master_process_command_NoExcept(raw, cls, st, f, contacts, tasks) ==
  dispatch(raw, cls, st, f, contacts, tasks)

\* master_process_command(raw_command)
master_process_command(raw, cls, st, f, contacts, tasks) ==
  except_Exception(dispatch(raw, cls, st, f, contacts, tasks))

\* The lines typed at the prompt.
Inputs ==
  {<<"A", "d", "d", " ", "c", "o", "n", "t", "a", "c", "t", " ", "A", "n", "n", ",", " ", "1", "1", "1", ",", " ", "a", "@", "x", ".", "c", "o", "m">>,
   <<"m", "a", "r", "k", " ", "t", "a", "s", "k", " ", "'", "P", "a", "y", "'", " ", "a", "s", " ", "d", "o", "n", "e">>,
   <<"d", "e", "l", "e", "t", "e", " ", "c", "o", "n", "t", "a", "c", "t", " ", "A", "n", "n">>,
   <<"d", "e", "l", "e", "t", "e", " ", "t", "a", "s", "k", " ", "w", "h", "e", "r", "e", " ", "t", "i", "t", "l", "e", " ", "i", "s", " ", "p", "a", "y">>,
   <<" ", "E", "x", "i", "t", " ">>}

\* What the router assistant makes of a command: a failure, or any operation
\* code with any target.
Classifications ==
  {Failure} \cup [operation : Operations \cup {"4"},
                  target : {<<"c", "o", "n", "t", "a", "c", "t", "s">>, <<"T", "a", "s", "k", "s">>, <<"n", "o", "t", "e", "s">>}]

\* The parameters the assistant of an entry point comes back with.
MainParams(operation) ==
  CASE operation = "0" -> {ScenarioAnn, s_Phone :> s_222, s_Title :> s_Pay}
    [] operation = "1" ->
         {[criteria |-> s_Title :> s_pay, updates |-> s_Status :> s_done], EmptyDict}
    [] operation = "2" -> {[criteria |-> s_Name :> s_Ann], EmptyDict}
    [] operation = "3" -> {EmptyDict}

\* What the assistant of the entry point the classification leads to returns:
\* a failure, a request with an operation code outside OperationType, or a
\* request for any target.  No assistant runs when the classification failed
\* or has no known operation code.
Structured(cls) ==
  IF cls = Failure THEN {NoStructured}
  ELSE IF cls.operation \notin Operations THEN {NoStructured}
  ELSE {Failure, [operation |-> "7", target |-> <<"c", "o", "n", "t", "a", "c", "t", "s">>, parameters |-> EmptyDict]}
         \cup [operation : {cls.operation},
               target : {<<"c", "o", "n", "t", "a", "c", "t", "s">>, <<"T", "a", "s", "k", "s">>, <<"n", "o", "t", "e", "s">>},
               parameters : MainParams(cls.operation)]

\* The files after initialize_files() in a directory without them.
MainInit ==
  /\ contacts_csv = File(<<CONTACT_HEADERS>>)
  /\ tasks_csv = File(<<TASK_HEADERS>>)
  /\ scenario = 0
  /\ pc = "prompt"
  /\ request = NoRequest
  /\ result = NoResult
  /\ pre = NoPre
  /\ NoCommand

\* One turn of main's loop for a line that is not 'exit': the line is
\* stripped, master_process_command runs and its message is printed.
Answer(raw, cls, st, f, out) ==
  /\ pc = "prompt"
  /\ lower(raw) # <<"e", "x", "i", "t">>
  /\ Len(out.contacts.rows) <= MaxRows
  /\ Len(out.tasks.rows) <= MaxRows
  /\ pc' = "returned"
  /\ raw_command' = raw
  /\ classification' = cls
  /\ structured' = st
  /\ fault' = f
  /\ request' = out.request
  /\ pre' = [contacts |-> contacts_csv, tasks |-> tasks_csv]
  /\ contacts_csv' = out.contacts
  /\ tasks_csv' = out.tasks
  /\ result' = out.result
  /\ printed' = out.printed
  /\ UNCHANGED scenario

Command ==
  \E line \in Inputs, cls \in Classifications, f \in Faults :
    \E st \in Structured(cls) :
      Answer(strip(line), cls, st, f,
             master_process_command(strip(line), cls, st, f, contacts_csv, tasks_csv))

\* The line is 'exit' in any letter case: the loop says goodbye and ends.
Exit ==
  /\ pc = "prompt"
  /\ \E line \in Inputs :
       /\ lower(strip(line)) = <<"e", "x", "i", "t">>
       /\ raw_command' = strip(line)
  /\ pc' = "done"
  /\ printed' = "Goodbye! Have a great day!"
  /\ UNCHANGED <<contacts_csv, tasks_csv, request, result, pre, scenario,
                 classification, structured, fault>>

\* Ctrl-C at the prompt: the loop ends.
KeyboardInterrupt ==
  /\ pc = "prompt"
  /\ pc' = "done"
  /\ printed' = "Operation cancelled. See you next time!"
  /\ UNCHANGED <<contacts_csv, tasks_csv, request, result, pre, scenario,
                 raw_command, classification, structured, fault>>

MainNext == Command \/ NextCommand \/ Exit \/ KeyboardInterrupt

SpecMain == MainInit /\ [][MainNext]_vars

\* The loop is sequential: once master_process_command has returned, printing
\* the message and prompting again is the only step left, and it is taken.
SpecMainFair == SpecMain /\ WF_vars(NextCommand)

(***************************************************************************)
(* row_matches on its own: one call with arguments drawn from bounded sets  *)
(***************************************************************************)

s_Ann_padded == <<" ", "A", "n", "n", " ">>

\* The most keys a criteria dict of a call holds.
MaxKeys == 2

MatchKeys == {s_Name, s_name, s_e_mail, s_Nick, s_Address, s_Title, s_Assigned_To}

MatchValues == {s_ann, s_Ann_padded, s_Bob, s_a_x_com, s_pay, <<>>}

MatchCriteria ==
  UNION {[K -> MatchValues] : K \in {S \in SUBSET MatchKeys : Cardinality(S) <= MaxKeys}}

\* Rows with their schema: full rows, padded and upper-case values, rows
\* shorter than the schema, the empty row.
MatchRows ==
  {[headers |-> CONTACT_HEADERS, row |-> r] :
     r \in {<<s_Ann, s_111, s_a_x_com, <<>>>>,
            <<s_Ann_padded, s_111, s_A_X_COM, <<>>>>,
            <<s_Bob, s_222, s_b_x_com, s_Ann>>,
            <<s_Ann, s_111, s_a_x_com>>,
            <<s_Ann>>,
            <<>>}}
  \cup
  {[headers |-> TASK_HEADERS, row |-> r] :
     r \in {<<s_Pay, <<>>, <<>>, s_on_going, s_ann>>,
            <<s_Fix, <<>>, <<>>, s_done, s_None>>,
            <<s_Pay>>}}

MatchInit ==
  /\ \E m \in MatchRows, criteria \in MatchCriteria :
       request = [operation |-> "row_matches", target |-> "",
                  parameters |-> [row |-> m.row, headers |-> m.headers,
                                  criteria |-> criteria]]
  /\ pc = "prompt"
  /\ result = NoResult
  /\ pre = NoPre
  /\ contacts_csv = NoFile
  /\ tasks_csv = NoFile
  /\ scenario = 0
  /\ NoCommand

\* The call returns what row_matches computes for the arguments.
RowMatchesCall ==
  /\ pc = "prompt"
  /\ pc' = "returned"
  /\ result' = row_matches(request.parameters.row, request.parameters.headers,
                           request.parameters.criteria)
  /\ UNCHANGED <<request, pre, contacts_csv, tasks_csv, scenario,
                 raw_command, classification, structured, printed, fault>>

MatchNext == RowMatchesCall

SpecMatch == MatchInit /\ [][MatchNext]_vars

(***************************************************************************)
(* Properties                                                              *)
(***************************************************************************)

\* A call of the given operation on the given target has just returned.
Returned(operation, target) ==
  pc = "returned" /\ request.operation = operation /\ request.target = target

\* An Add, Edit or Delete call has just returned: the only calls that write a
\* store, so the stores of every reachable state are those of such a state or
\* of the initial one.
Mutated == pc = "returned" /\ request.operation \in {"0", "1", "2"}

\* The files of a target before and after the call that has just returned.
before(target) == IF target = "contacts" THEN pre.contacts ELSE pre.tasks

after(target) == IF target = "contacts" THEN contacts_csv ELSE tasks_csv

schema(target) == IF target = "contacts" THEN CONTACT_HEADERS ELSE TASK_HEADERS

Targets == {"contacts", "tasks"}

\* C1: in every state reached by contact Add, Edit and Delete calls no two
\* contact records have Emails that are equal when compared case-insensitively.
C1_EmailUnique ==
  Mutated =>
    LET rows == records(contacts_csv, CONTACT_HEADERS)
    IN \A i, j \in DOMAIN rows :
         (i # j /\ Len(rows[i]) >= 3 /\ Len(rows[j]) >= 3)
           => lower(rows[i][3]) # lower(rows[j][3])

\* C2: in every state reached by task Add, Edit and Delete calls no two task
\* records have Titles that are equal when compared case-insensitively.
C2_TitleUnique ==
  Mutated =>
    LET rows == records(tasks_csv, TASK_HEADERS)
    IN \A i, j \in DOMAIN rows :
         (i # j /\ Len(rows[i]) >= 1 /\ Len(rows[j]) >= 1)
           => lower(rows[i][1]) # lower(rows[j][1])

\* C3: in every state reached by Add, Edit and Delete calls every task record
\* whose AssignedTo is neither empty nor 'none' (any case) names,
\* case-insensitively, a contact record that is in the contacts store.
C3_AssignedToExists ==
  Mutated =>
    LET tasks == records(tasks_csv, TASK_HEADERS)
        contacts == records(contacts_csv, CONTACT_HEADERS)
    IN \A i \in DOMAIN tasks :
         (Len(tasks[i]) >= 5 /\ tasks[i][5] # <<>> /\ lower(tasks[i][5]) # s_none)
           => \E j \in DOMAIN contacts :
                Len(contacts[j]) >= 1 /\ lower(contacts[j][1]) = lower(tasks[i][5])

\* A contact Add has just returned whose Email equals, in some letter case, the
\* Email of a row that was in the contacts file.
DuplicateEmailAdd ==
  /\ Returned("0", "contacts")
  /\ \E i \in DOMAIN load(pre.contacts) :
       /\ Len(load(pre.contacts)[i]) >= 3
       /\ lower(load(pre.contacts)[i][3]) = lower(strip(get(request.parameters, s_Email, <<>>)))

\* The Add failed as a duplicate and left the contacts file as it was.
DuplicateResult ==
  /\ result.status = "failed"
  /\ result.message \in {"Phone number exists", "Email exists"}
  /\ contacts_csv = pre.contacts

\* C4 as stated: every contact Add whose Email equals, in any letter case, the
\* Email of a record in the store returns a failed duplicate result and leaves
\* the contacts store identical.
C4_DuplicateEmailAlways == DuplicateEmailAdd => DuplicateResult

\* C4 amended: every contact Add whose Name and Phone are non-empty after
\* trimming and whose Email equals, in any letter case, the Email of a record
\* in the store returns a failed duplicate result and leaves the contacts
\* store identical.
C4_DuplicateEmailValid ==
  (/\ DuplicateEmailAdd
   /\ strip(get(request.parameters, s_Name, <<>>)) # <<>>
   /\ strip(get(request.parameters, s_Phone, <<>>)) # <<>>) => DuplicateResult

\* An Add of Bob with Email A@X.COM was refused because of Ann's a@x.com.
C4_Witness ==
  /\ DuplicateEmailAdd
  /\ request.parameters[s_Email] = s_A_X_COM
  /\ s_Name \in DOMAIN request.parameters
  /\ result.message = "Email exists"
  /\ \E i \in DOMAIN load(contacts_csv) : load(contacts_csv)[i][3] = s_a_x_com

\* The rows of a file that do not match the criteria, in file order.
NonMatching(rows, headers, criteria) ==
  SelectSeq(rows, LAMBDA row : ~row_matches(row, headers, criteria))

\* C5: a Delete with non-empty criteria that K >= 1 of the N records match
\* leaves exactly the N-K records that do not match, unchanged and in their
\* original order, and reports K removed.
C5_DeleteCount ==
  \A target \in Targets :
    Returned("2", target) =>
      LET rows == records(before(target), schema(target))
          criteria == get(request.parameters, "criteria", EmptyDict)
          K == Cardinality({i \in DOMAIN rows : row_matches(rows[i], schema(target), criteria)})
          left == records(after(target), schema(target))
      IN (criteria # EmptyDict /\ K >= 1) =>
           /\ result.status = "success"
           /\ result.count = K
           /\ left = NonMatching(rows, schema(target), criteria)
           /\ Len(left) = Len(rows) - K

\* A Delete removed one of the two records of a store and kept the other.
C5_Witness ==
  /\ \E target \in Targets :
       /\ Returned("2", target)
       /\ Len(records(before(target), schema(target))) = 2
       /\ Len(records(after(target), schema(target))) = 1
  /\ result.count = 1

\* The positions of a file's records that match the criteria.
matching_records(file, headers, criteria) ==
  {i \in DOMAIN load(file) :
     load(file)[i] # headers /\ row_matches(load(file)[i], headers, criteria)}

\* An Edit with criteria and updates has just returned.
Edited(target) ==
  /\ Returned("1", target)
  /\ request.parameters.criteria # EmptyDict
  /\ request.parameters.updates # EmptyDict

\* C6: an Edit of a store of records made by Add, K >= 1 of which match the
\* criteria, reports K updated and leaves every record that does not match in
\* the store, with the same field values at the same position.
C6_EditFrame ==
  \A target \in Targets :
    Edited(target) =>
      LET rows == load(before(target))
          hits == matching_records(before(target), schema(target),
                                   request.parameters.criteria)
      IN Cardinality(hits) >= 1 =>
           /\ result.status = "success"
           /\ result.count = Cardinality(hits)
           /\ \A i \in DOMAIN rows :
                (rows[i] # schema(target) /\ i \notin hits)
                  => (i \in DOMAIN load(after(target)) /\ load(after(target))[i] = rows[i])

\* C7: an Edit with criteria and updates whose criteria match no record returns
\* a failed not-found result and leaves the store as it was, and an Edit that
\* returns success has updated at least one record.
C7_EditNotFound ==
  \A target \in Targets :
    Edited(target) =>
      LET hits == matching_records(before(target), schema(target),
                                   request.parameters.criteria)
      IN /\ hits = {} =>
              /\ result.status = "failed"
              /\ result.message \in {"No matching contacts found", "No matching tasks found"}
              /\ after(target) = before(target)
         /\ result.status = "success" => (result.count >= 1 /\ hits # {})

\* C8: from a contacts store without records the calls Add Ann/111/a@x.com,
\* Add Bob/111/b@x.com, Delete {Name: Ann}, View without criteria return, in
\* order: success; failed with a message about the phone; success with 1
\* removed; failed 'No matching records found' with the store empty.
C8_Scenario ==
  pc = "returned" =>
    /\ scenario = 1 => result.status = "success"
    /\ scenario = 2 => (result.status = "failed" /\ result.message = "Phone number exists")
    /\ scenario = 3 => (result.status = "success" /\ result.count = 1)
    /\ scenario = 4 =>
         /\ result.status = "failed"
         /\ result.message = "No matching records found"
         /\ result.data = <<>>
         /\ records(contacts_csv, CONTACT_HEADERS) = <<>>

\* The rows in descending order of the lower-cased value of a column, rows with
\* equal keys in their original order.
StableDescending(rows, column) ==
  LET n == Len(rows)
      key(i) == lower(rows[i][column])
      order == CHOOSE f \in [1..n -> 1..n] :
                 /\ \A i, j \in 1..n : i # j => f[i] # f[j]
                 /\ \A p, q \in 1..n :
                      p < q => \/ str_lt(key(f[q]), key(f[p]))
                               \/ (key(f[p]) = key(f[q]) /\ f[p] < f[q])
  IN [p \in 1..n |-> rows[order[p]]]

\* The records a view has returned: its data but for the header row's dict.
shown(target) ==
  SelectSeq(result.data, LAMBDA d : d # zip_dict(schema(target), schema(target)))

as_dicts(rows, headers) == [i \in DOMAIN rows |-> zip_dict(headers, rows[i])]

\* A view sorted by a schema field in descending order has just returned.
SortedDescending(target) ==
  /\ Returned("3", target)
  /\ "sort_by" \in DOMAIN request.parameters
  /\ \E c \in DOMAIN schema(target) :
       lower(remove_spaces(schema(target)[c])) = lower(remove_spaces(request.parameters.sort_by))
  /\ "order" \in DOMAIN request.parameters
  /\ request.parameters.order = s_desc

normalized(name) == remove_spaces(lower(name))

\* C10: row_matches returns true iff every criteria key, lower-cased and without
\* spaces, names a schema field and the row's value in that column, trimmed and
\* lower-cased, equals the criterion value trimmed and lower-cased; criteria
\* with a key that names no schema field never match, empty criteria always do.
C10_RowMatches ==
  (pc = "returned" /\ request.operation = "row_matches") =>
    LET row == request.parameters.row
        headers == request.parameters.headers
        criteria == request.parameters.criteria
        names_field(key) ==
          \E c \in DOMAIN headers : normalized(headers[c]) = normalized(key)
        passes(key) ==
          \E c \in DOMAIN headers :
            /\ normalized(headers[c]) = normalized(key)
            /\ c \in DOMAIN row
            /\ lower(strip(row[c])) = lower(strip(criteria[key]))
    IN /\ result = (\A key \in DOMAIN criteria : passes(key))
       /\ (\E key \in DOMAIN criteria : ~names_field(key)) => result = FALSE
       /\ criteria = EmptyDict => result = TRUE

\* row_matches returned true for a row with a padded name and an upper-case
\* email against criteria with the key 'e mail' and lower-case values.
C10_Witness ==
  /\ pc = "returned"
  /\ request.operation = "row_matches"
  /\ result = TRUE
  /\ Len(request.parameters.row) = 4
  /\ request.parameters.row[1] = s_Ann_padded
  /\ request.parameters.criteria = (s_name :> s_ann) @@ (s_e_mail :> s_a_x_com)

\* C13: after a successful Edit of a store that begins with its header row, in
\* every matched record each column whose schema field name is a key of updates
\* holds the value given in updates, and every other column of that record
\* holds its prior value.
C13_EditColumns ==
  \A target \in Targets :
    (/\ Edited(target)
     /\ result.status = "success"
     /\ load(before(target)) # <<>>
     /\ Head(load(before(target))) = schema(target)) =>
      LET headers == schema(target)
          rows == load(before(target))
          updates == request.parameters.updates
          hits == matching_records(before(target), headers, request.parameters.criteria)
      IN \A i \in hits :
           Len(rows[i]) = Len(headers) =>
             /\ i \in DOMAIN load(after(target))
             /\ Len(load(after(target))[i]) = Len(headers)
             /\ \A c \in DOMAIN headers :
                  load(after(target))[i][c] =
                    IF headers[c] \in DOMAIN updates
                    THEN updates[headers[c]]
                    ELSE rows[i][c]

\* A Delete has just returned whose request had no criteria or empty ones.
DeleteWithoutCriteria(target) ==
  /\ Returned("2", target)
  /\ get(request.parameters, "criteria", EmptyDict) = EmptyDict

\* C14: every Delete on either target whose criteria is missing or empty
\* returns the validation failure with status 'failed' and removes no record:
\* both stores are identical before and after.
C14_DeleteNoCriteria ==
  \A target \in Targets :
    DeleteWithoutCriteria(target) =>
      /\ result.status = "failed"
      /\ result.message = "No deletion criteria provided."
      /\ contacts_csv = pre.contacts
      /\ tasks_csv = pre.tasks

\* A Delete without the criteria key was refused on a contacts store of two
\* records, all of which empty criteria would match.
C14_Witness ==
  /\ DeleteWithoutCriteria("contacts")
  /\ "criteria" \notin DOMAIN request.parameters
  /\ Len(records(pre.contacts, CONTACT_HEADERS)) = 2
  /\ \A i \in DOMAIN load(pre.contacts) :
       row_matches(load(pre.contacts)[i], CONTACT_HEADERS, EmptyDict)
  /\ result.status = "failed"
  /\ contacts_csv = pre.contacts

\* A task Add has just returned whose Title, trimmed, is non-empty and equals
\* no Title in the tasks file case-insensitively, and whose AssignedTo, trimmed,
\* is non-empty, is not 'none' in any letter case and equals, case-insensitively,
\* the Name of no contact record.
DanglingAssignedToAdd ==
  /\ Returned("0", "tasks")
  /\ LET title == strip(get(request.parameters, s_Title, <<>>))
         assigned_to == strip(get(request.parameters, s_AssignedTo, s_None))
         tasks == load(pre.tasks)
         contacts == records(pre.contacts, CONTACT_HEADERS)
     IN /\ title # <<>>
        /\ \A i \in DOMAIN tasks : Len(tasks[i]) >= 1 => lower(tasks[i][1]) # lower(title)
        /\ assigned_to # <<>>
        /\ lower(assigned_to) # s_none
        /\ \A j \in DOMAIN contacts :
             Len(contacts[j]) >= 1 => lower(strip(contacts[j][1])) # lower(assigned_to)

\* C15: a task Add whose AssignedTo is non-empty and not 'none' (any case), and
\* for which no contact record has a Name equal to it case-insensitively,
\* returns the failed 'not found' result for the assigned contact and leaves
\* the tasks store unchanged, whatever its Title, as long as the Title is
\* present and not a duplicate.
C15_DanglingAssignedTo ==
  DanglingAssignedToAdd =>
    /\ result.status = "failed"
    /\ result.message = "Assigned contact not found"
    /\ tasks_csv = pre.tasks

\* An Add on the target has just returned success.
Added(target) == Returned("0", target) /\ result.status = "success"

\* The last row of a file.
last_row(file) == load(file)[Len(load(file))]

\* C16: a successful Add changes the store only by placing one new record after
\* all existing ones: every prior row keeps its content and position, the other
\* store is untouched, and the new record has exactly the schema's number of
\* fields, with Address empty when not given (contacts) and Description and
\* DueDate empty, Status 'on going', AssignedTo 'None' when not given (tasks).
C16_AddAppends ==
  \A target \in Targets :
    Added(target) =>
      LET old == load(before(target))
          new == load(after(target))
          given == DOMAIN request.parameters
      IN /\ Len(new) = Len(old) + 1
         /\ SubSeq(new, 1, Len(old)) = old
         /\ Len(last_row(after(target))) = Len(schema(target))
         /\ target = "contacts" =>
              /\ tasks_csv = pre.tasks
              /\ s_Address \notin given => last_row(contacts_csv)[4] = <<>>
         /\ target = "tasks" =>
              /\ contacts_csv = pre.contacts
              /\ s_Description \notin given => last_row(tasks_csv)[2] = <<>>
              /\ s_DueDate \notin given => last_row(tasks_csv)[3] = <<>>
              /\ s_Status \notin given => last_row(tasks_csv)[4] = s_on_going
              /\ s_AssignedTo \notin given => last_row(tasks_csv)[5] = s_None

\* A task Add with nothing but a Title put Pay,,,on going,None after the
\* header row and a record that was already in the tasks store.
C16_Witness ==
  /\ Added("tasks")
  /\ DOMAIN request.parameters = {s_Title}
  /\ Len(load(pre.tasks)) = 2
  /\ Len(records(pre.tasks, TASK_HEADERS)) = 1
  /\ load(tasks_csv) = load(pre.tasks) \o <<(<<s_Pay, <<>>, <<>>, s_on_going, s_None>>)>>

\* C18: a View on either target, with any criteria, sort_by and order and
\* whatever result it returns, leaves both the contacts store and the tasks
\* store identical to what they were before the call.
C18_ViewReadOnly ==
  \A target \in Targets :
    Returned("3", target) => (contacts_csv = pre.contacts /\ tasks_csv = pre.tasks)

\* A contacts View with criteria returned fewer rows than the file holds, and
\* the file still holds them all.
C18_Witness ==
  /\ Returned("3", "contacts")
  /\ get(request.parameters, "criteria", EmptyDict) # EmptyDict
  /\ result.status = "success"
  /\ Len(result.data) < Len(load(pre.contacts))
  /\ contacts_csv = pre.contacts
  /\ tasks_csv = pre.tasks

\* C20: in every state reachable from empty stores by any sequence of Add, Edit
\* and Delete operations, every record in the contacts store has exactly 4
\* fields and every record in the tasks store has exactly 5 fields.
C20_FieldCounts ==
  /\ \A i \in DOMAIN records(contacts_csv, CONTACT_HEADERS) :
       Len(records(contacts_csv, CONTACT_HEADERS)[i]) = 4
  /\ \A i \in DOMAIN records(tasks_csv, TASK_HEADERS) :
       Len(records(tasks_csv, TASK_HEADERS)[i]) = 5

\* A contact Edit has just rewritten a contacts store of two records, one of
\* them updated, next to a tasks store that holds a record.
C20_Witness ==
  /\ Edited("contacts")
  /\ result.status = "success"
  /\ contacts_csv # pre.contacts
  /\ Len(records(contacts_csv, CONTACT_HEADERS)) = 2
  /\ Len(records(tasks_csv, TASK_HEADERS)) >= 1

\* C12: every invocation of an Add, Edit, Delete or View resolver, including
\* one during which a storage read, append or rewrite fails, returns to its
\* caller a result whose status is one of 'success', 'failed', 'error': no
\* resolver lets an exception escape to its caller.
C12_ResolverReturns ==
  (pc = "returned" /\ request.operation \in Operations) =>
    /\ "status" \in DOMAIN result
    /\ result.status \in {"success", "failed", "error"}

\* master_process_command has just returned for a line that was classified.
Classified ==
  /\ pc = "returned"
  /\ classification # Failure
  /\ classification # NoClassification

\* C11: for every classification whose operation code is not one of '0', '1',
\* '2', '3' or whose target is neither 'contacts' nor 'tasks', the router
\* returns the 'could not understand' failed result without raising, invokes no
\* resolver, and leaves both stores unchanged.
C11_UnknownClassification ==
  (/\ Classified
   /\ \/ classification.operation \notin Operations
      \/ target_of(classification.target) \notin Targets) =>
    /\ result = Result("failed", "I couldn't understand your request. Please try again.")
    /\ request = NoRequest
    /\ contacts_csv = pre.contacts
    /\ tasks_csv = pre.tasks

\* The characters \w matches.
WordChars ==
  {"_"} \cup {Digits[i] : i \in DOMAIN Digits}
    \cup {UpperCase[i] : i \in DOMAIN UpperCase}
    \cup {LowerCase[i] : i \in DOMAIN LowerCase}

\* The length of the longest run of characters of a class at offset i of s:
\* what a greedy \s* or \w* consumes there.
RECURSIVE run(_, _, _)
run(s, i, class) == IF i < Len(s) /\ s[i + 1] \in class THEN 1 + run(s, i + 1, class) ELSE 0

\* The offset after word1\s+word2\s+... matched at offset i of s without regard
\* to letter case, -1 when it does not match there.
RECURSIVE match_words(_, _, _)
match_words(s, i, words) ==
  IF words = <<>> THEN i
  ELSE IF /\ i + Len(Head(words)) <= Len(s)
          /\ lower(SubSeq(s, i + 1, i + Len(Head(words)))) = Head(words)
          /\ run(s, i + Len(Head(words)), Whitespace) >= 1
  THEN match_words(s, i + Len(Head(words)) + run(s, i + Len(Head(words)), Whitespace),
                   Tail(words))
  ELSE -1

\* re.search(r"word1\s+...\s+['\"](.*?)['\"]\s+conn\s+(\w+)", s, re.IGNORECASE):
\* the leftmost match with the shortest quoted text, as the criteria and
\* updates fallback_parse_edit_command builds from its two groups; {} when
\* there is no match.
status_match(s, words, conn) ==
  LET quotes == {"'", "\""}
      status_at(j) ==
        IF run(s, j, Whitespace) = 0 THEN -1
        ELSE match_words(s, j + run(s, j, Whitespace), <<conn>>)
      opens(i) == match_words(s, i, words)
      matches(i, j) ==
        /\ opens(i) # -1
        /\ opens(i) < Len(s)
        /\ s[opens(i) + 1] \in quotes
        /\ j > opens(i) + 1
        /\ s[j] \in quotes
        /\ status_at(j) # -1
        /\ run(s, status_at(j), WordChars) >= 1
      hits == {h \in (0..Len(s)) \X (1..Len(s)) : matches(h[1], h[2])}
      first == CHOOSE h \in hits :
                 \A g \in hits : h[1] < g[1] \/ (h[1] = g[1] /\ h[2] <= g[2])
      title == SubSeq(s, opens(first[1]) + 2, first[2] - 1)
      status == SubSeq(s, status_at(first[2]) + 1,
                       status_at(first[2]) + run(s, status_at(first[2]), WordChars))
  IN IF hits = {} THEN EmptyDict
     ELSE [criteria |-> s_Title :> strip(title), updates |-> s_Status :> strip(status)]

\* fallback_parse_edit_command(raw_command)
fallback_parse_edit_command(raw) ==
  IF DOMAIN status_match(raw, <<<<"m", "a", "r", "k">>, <<"t", "a", "s", "k">>>>, <<"a", "s">>) # {}
  THEN status_match(raw, <<<<"m", "a", "r", "k">>, <<"t", "a", "s", "k">>>>, <<"a", "s">>)
  ELSE IF DOMAIN status_match(raw, <<<<"u", "p", "d", "a", "t", "e">>, <<"s", "t", "a", "t", "u", "s">>, <<"o", "f">>>>, <<"t", "o">>) # {}
  THEN status_match(raw, <<<<"u", "p", "d", "a", "t", "e">>, <<"s", "t", "a", "t", "u", "s">>, <<"o", "f">>>>, <<"t", "o">>)
  ELSE [criteria |-> EmptyDict, updates |-> EmptyDict]

\* The edit entry point has just handled a command whose structured request
\* is for tasks and has missing or empty criteria or updates, while the raw
\* command has one of the two forms the fallback parser knows; the storage did
\* not fail.
EditNeedsFallback ==
  /\ Classified
  /\ classification.operation = "1"
  /\ fault = "none"
  /\ structured # Failure
  /\ structured.operation \in Operations
  /\ target_of(structured.target) = "tasks"
  /\ \/ get(structured.parameters, "criteria", EmptyDict) = EmptyDict
     \/ get(structured.parameters, "updates", EmptyDict) = EmptyDict
  /\ fallback_parse_edit_command(raw_command).criteria # EmptyDict

\* C19: when an edit command's structured request has missing or empty criteria
\* or updates and the raw command has the form mark task '<title>' as <status>
\* or update status of '<title>' to <status>, the edit entry point runs the
\* task Edit with criteria {Title: <title>} and updates {Status: <status>}, so
\* that an existing task with that title gets that Status instead of the
\* command failing for missing criteria or updates.
C19_EditFallback ==
  EditNeedsFallback =>
    LET parsed == fallback_parse_edit_command(raw_command)
        rows == load(pre.tasks)
    IN /\ request = [operation |-> "1", target |-> "tasks", parameters |-> parsed]
       /\ result.message # "Missing criteria or updates"
       /\ \A i \in DOMAIN rows :
            (rows[i] # TASK_HEADERS /\ row_matches(rows[i], TASK_HEADERS, parsed.criteria))
              => /\ i \in DOMAIN load(tasks_csv)
                 /\ load(tasks_csv)[i][4] = parsed.updates[s_Status]

\* The result of the resolver call the entry point made, before the router saw
\* it: recomputed from the request, the files before the call and the fault.
resolver_result ==
  resolver_under(fault, request.operation, request.target,
                 pre.contacts, pre.tasks, request.parameters).result

\* The entry point's assistant failed, or returned what RequestModel rejects.
StructuredFailed ==
  \/ structured = Failure
  \/ structured.operation \notin Operations
  \/ classification.operation = "0" /\ structured.operation # "0"

\* A failure occurred in the classification or in what was dispatched for it:
\* in the entry point's assistant, in the delete fallback parser, or in the
\* resolver, which raised or returned an 'error' result.
Failed ==
  /\ pc = "returned"
  /\ classification # NoClassification
  /\ \/ classification = Failure
     \/ /\ classification.operation \in Operations
        /\ \/ StructuredFailed
           \/ /\ classification.operation = "2"
              /\ "raised" \in DOMAIN process_delete_parameters(structured, raw_command)
           \/ /\ request # NoRequest
              /\ \/ "raised" \in DOMAIN resolver_result
                 \/ resolver_result.status = "error"

\* The failure reached master_process_command as an exception: the
\* classification failed, or the Add entry point, which has no try block, let
\* out the failure of its assistant or of a resolver's unguarded read.
Escaped ==
  /\ Failed
  /\ \/ classification = Failure
     \/ /\ classification.operation = "0"
        /\ \/ StructuredFailed
           \/ request # NoRequest /\ "raised" \in DOMAIN resolver_result

\* master_process_command returned the generic apology and touched no file.
Apologized ==
  /\ result = ApologyResult
  /\ printed = "Oops! Something went wrong. Please try again later."
  /\ contacts_csv = pre.contacts
  /\ tasks_csv = pre.tasks

\* The loop has ended on 'exit' or on a keyboard interrupt.
LoopEnded ==
  pc = "done" =>
    \/ lower(raw_command) = <<"e", "x", "i", "t">>
    \/ printed = "Operation cancelled. See you next time!"

C21_FailedFrame ==
  /\ (Mutated /\ result.status = "failed") =>
       /\ contacts_csv = pre.contacts
       /\ tasks_csv = pre.tasks
  /\ (Mutated /\ (contacts_csv # pre.contacts \/ tasks_csv # pre.tasks)) =>
       result.status \in {"success", "error"}

\* A task Add was refused for its dangling AssignedTo, the last of the checks
\* before the append, on stores that both hold records, and left both as they
\* were.
C21_Witness ==
  /\ Returned("0", "tasks")
  /\ result = Result("failed", "Assigned contact not found")
  /\ records(pre.contacts, CONTACT_HEADERS) # <<>>
  /\ records(pre.tasks, TASK_HEADERS) # <<>>
  /\ strip(get(request.parameters, s_Title, <<>>)) # <<>>
  /\ contacts_csv = pre.contacts
  /\ tasks_csv = pre.tasks

====
